---- MODULE Spec2Model ----
(***************************************************************************)
(* fastqcheck: main() of src/src/fastqcheck.c as a state machine.          *)
(*                                                                         *)
(* The program is one sequential process.  pc is its position:             *)
(*   "start"   lines 84-93   choose the input stream                       *)
(*   "read"    line  95      readFastq() and the while test                *)
(*   "count"   lines 96-97   ++nseq, ++nlen[length], total += length       *)
(*   "check"   lines 98-104  lengthMax and the MAX_LENGTH test             *)
(*   "fold"    lines 105-110 the per-position loop and the three free()s   *)
(*   "eof"     lines 113-116 the status < 0 test                           *)
(*   "summary" lines 118-121 the "sequences, total length" line            *)
(*   "total"   lines 123-137 the header and the Total row                  *)
(*   "base"    lines 138-150 one "base i" row per step                     *)
(*   "finish"  lines 151-153 exit (EXIT_SUCCESS)                           *)
(*   "exit"    the process has ended                                       *)
(*                                                                         *)
(* Numbers the report prints with %f (percentages, average, standard       *)
(* deviations, AQ) are kept as the integer numerators and denominators     *)
(* they are computed from; the per-mille columns, which the code rounds    *)
(* to an int with lrint(), are computed.                                   *)
(***************************************************************************)
EXTENDS Integers, Sequences, FiniteSets

\* MAX_LENGTH of line 61 is 100000; the model runs with a small extent.
MAX_LENGTH == 3

\* Number of records the reader hands over before the stream must end.
MaxRecords == 2

\* Largest quality value the reader produces (the code's range is 0..255).
MaxQual == 2

\* Records of the uniform streams that start SpecReport.
MaxUniform == 17

\* sum[5]: the symbol codes _A, _C, _G, _T, _N of lines 55-59.
NumSymbols == 5

Symbols == 0 .. (NumSymbols - 1)

\* Symbol codes the modelled reader produces: _A and _N.
InputSymbols == {0, NumSymbols - 1}

Quals == 0 .. MaxQual

Positions == 0 .. (MAX_LENGTH - 1)

VARIABLES pc, fil, status, length, seq, qval, nseq, total, lengthMax, qMax,
          sum, qsum, psum, pqsum, nlen, i, stdout, stderr, exitCode,
          accepted, index

vars == <<pc, fil, status, length, seq, qval, nseq, total, lengthMax, qMax,
          sum, qsum, psum, pqsum, nlen, i, stdout, stderr, exitCode,
          accepted, index>>

counters == <<nseq, total, lengthMax, qMax, sum, qsum, psum, pqsum, nlen>>

record == <<status, length, seq, qval>>

RECURSIVE SumOver(_, _)
SumOver(f, S) ==
  IF S = {} THEN 0
  ELSE LET x == CHOOSE y \in S : TRUE IN f[x] + SumOver(f, S \ {x})

----------------------------------------------------------------------------
\* Output lines.  what: which printf produced it; pos: the 1-based position
\* of a "base" row (0 otherwise); denoms: the denominators of the divisions
\* made for the line, in order; comp: the integers printed or the numerators
\* of the percentages; permille: the rounded per-mille columns.
Line(what, p, denoms, comp, permille) ==
  [what |-> what, pos |-> p, denoms |-> denoms, comp |-> comp,
   permille |-> permille]

Usage == Line("usage", 0, <<>>, <<>>, <<>>)

\* print_usage(stdout, exit_code): the usage text, then exit.
print_usage(code) ==
  /\ stdout' = Append(stdout, Usage)
  /\ exitCode' = code
  /\ pc' = "exit"

Init ==
  /\ pc = "start"
  /\ fil = "none"
  /\ status = 0
  /\ length = 0
  /\ seq = <<>>
  /\ qval = <<>>
  /\ nseq = 0
  /\ total = 0
  /\ lengthMax = 0
  /\ qMax = 0
  /\ sum = [s \in Symbols |-> 0]
  /\ qsum = [q \in Quals |-> 0]
  /\ psum = [p \in Positions |-> [s \in Symbols |-> 0]]
  /\ pqsum = [p \in Positions |-> [q \in Quals |-> 0]]
  /\ nlen = [p \in Positions |-> 0]
  /\ i = 0
  /\ stdout = <<>>
  /\ stderr = <<>>
  /\ exitCode = "running"
  /\ accepted = [l \in 0 .. MAX_LENGTH |-> 0]
  /\ index = {}

\* Lines 84-93.
Start ==
  /\ pc = "start"
  /\ \E argc \in {1, 2}, opens \in BOOLEAN :
       IF argc = 1
       THEN /\ fil' = "stdin"
            /\ pc' = "read"
            /\ UNCHANGED <<stdout, stderr, exitCode>>
       ELSE IF ~opens
       THEN /\ fil' = "none"
            /\ stderr' = Append(stderr, "Failed to open fastq file")
            /\ print_usage("EXIT_FAILURE")
       ELSE /\ fil' = "file"
            /\ stderr' = stderr
            /\ print_usage("EXIT_SUCCESS")
  /\ index' = {}
  /\ UNCHANGED <<record, counters, i, accepted>>

----------------------------------------------------------------------------
\* readFastq (readseq.c, not part of src/): what one call may hand back.
\* A record has as many quality values as symbols; symbols are codes of the
\* five-letter alphabet, qualities are small non-negative integers.  The
\* records offered have one symbol throughout and qualities that are either
\* constant or step through the quality range from a start value.
RecordOf(len, s, q0, step) ==
  [length |-> len,
   seq    |-> [k \in 1 .. len |-> s],
   qval   |-> [k \in 1 .. len |-> (q0 + (k - 1) * step) % (MaxQual + 1)]]

InputRecords ==
  { RecordOf(len, s, q0, step) :
      len \in 0 .. (MAX_LENGTH + 1), s \in InputSymbols, q0 \in Quals,
      step \in {0, 1} }

\* Line 95, status > 0: a record was read.
ReadRecord ==
  /\ pc = "read"
  /\ nseq < MaxRecords
  /\ \E r \in InputRecords :
       /\ length' = r.length
       /\ seq' = r.seq
       /\ qval' = r.qval
  /\ status' = 1
  /\ pc' = "count"
  /\ index' = {}
  /\ UNCHANGED <<fil, counters, i, stdout, stderr, exitCode, accepted>>

\* Line 95, status = 0 (clean end of stream) or status < 0 (malformed
\* record): the loop ends and none of the out-parameters is used.
ReadEnd ==
  /\ pc = "read"
  /\ \E st \in {0, -1} : status' = st
  /\ pc' = "eof"
  /\ index' = {}
  /\ UNCHANGED <<fil, length, seq, qval, counters, i, stdout, stderr,
                 exitCode, accepted>>

\* ++nlen[length] with length >= MAX_LENGTH stores outside nlen, which is
\* undefined.  gcc without -O (the command of line 26) lays the statics out
\* as nlen, sum, psum, qsum, pqsum, with sum starting where nlen ends;
\* gcc -O2 puts nlen last, at the end of .bss.  So the store lands in sum
\* (nlen[MAX_LENGTH + d] is sum[d]), or in memory that is none of main's
\* counters, or on an unmapped page, which kills the process.
StrayStores == {"sum", "elsewhere", "fault"}

\* Lines 96-97: ++nseq ; ++nlen[length] ; total += length.
Count ==
  /\ pc = "count"
  /\ nseq' = nseq + 1
  /\ total' = total + length
  /\ index' = {length}
  /\ IF length \in Positions
     THEN /\ nlen' = [nlen EXCEPT ![length] = @ + 1]
          /\ pc' = "check"
          /\ UNCHANGED <<sum, exitCode>>
     ELSE /\ nlen' = nlen
          /\ \E store \in StrayStores :
               CASE store = "sum" /\ (length - MAX_LENGTH) \in Symbols ->
                      /\ sum' = [sum EXCEPT ![length - MAX_LENGTH] = @ + 1]
                      /\ pc' = "check"
                      /\ exitCode' = exitCode
                 [] store = "fault" ->
                      /\ sum' = sum
                      /\ pc' = "exit"
                      /\ exitCode' = "SIGSEGV"
                 [] OTHER ->
                      /\ sum' = sum
                      /\ pc' = "check"
                      /\ exitCode' = exitCode
  /\ UNCHANGED <<fil, record, lengthMax, qMax, qsum, psum, pqsum, i, stdout,
                 stderr, accepted>>

\* CheckFits without the MAX_LENGTH test: every record goes on to the loop.
CheckFits_Unchecked ==
  /\ pc = "check"
  /\ lengthMax' = IF length > lengthMax THEN length ELSE lengthMax
  /\ pc' = "fold"
  /\ index' = {}
  /\ UNCHANGED <<fil, record, nseq, total, qMax, sum, qsum, psum, pqsum,
                 nlen, i, stdout, stderr, exitCode, accepted>>

\* Lines 98-104, the record fits or is no longer than an earlier one.
CheckFits ==
  /\ pc = "check"
  /\ ~(length > lengthMax /\ length > MAX_LENGTH)
  /\ lengthMax' = IF length > lengthMax THEN length ELSE lengthMax
  /\ pc' = "fold"
  /\ index' = {}
  /\ UNCHANGED <<fil, record, nseq, total, qMax, sum, qsum, psum, pqsum,
                 nlen, i, stdout, stderr, exitCode, accepted>>

\* Lines 98-103, length > lengthMax and length > MAX_LENGTH.
CheckTooLong ==
  /\ pc = "check"
  /\ length > lengthMax
  /\ length > MAX_LENGTH
  /\ lengthMax' = length
  /\ stderr' = Append(stderr, "longer than MAX_LENGTH")
  /\ print_usage("EXIT_FAILURE")
  /\ index' = {}
  /\ UNCHANGED <<fil, record, nseq, total, qMax, sum, qsum, psum, pqsum,
                 nlen, i, accepted>>

\* The counters after positions k .. length of the record have been folded
\* in (lines 106-108, one iteration per position).
RECURSIVE FoldFrom(_, _)
FoldFrom(k, c) ==
  IF k > length THEN c
  ELSE FoldFrom(k + 1,
         [sum   |-> [c.sum EXCEPT ![seq[k]] = @ + 1],
          psum  |-> [c.psum EXCEPT ![k - 1][seq[k]] = @ + 1],
          qsum  |-> [c.qsum EXCEPT ![qval[k]] = @ + 1],
          pqsum |-> [c.pqsum EXCEPT ![k - 1][qval[k]] = @ + 1],
          qMax  |-> IF qval[k] > c.qMax THEN qval[k] ELSE c.qMax])

\* Lines 105-110.  A position outside psum and pqsum is reached only when
\* length > MAX_LENGTH has got here, which CheckTooLong excludes.
Fold ==
  /\ pc = "fold"
  /\ LET c == FoldFrom(1, [sum |-> sum, psum |-> psum, qsum |-> qsum,
                           pqsum |-> pqsum, qMax |-> qMax])
     IN /\ sum' = c.sum
        /\ psum' = c.psum
        /\ qsum' = c.qsum
        /\ pqsum' = c.pqsum
        /\ qMax' = c.qMax
  /\ index' = 0 .. (length - 1)
  /\ i' = length
  /\ seq' = <<>>
  /\ qval' = <<>>
  /\ accepted' = [accepted EXCEPT ![length] = @ + 1]
  /\ pc' = "read"
  /\ UNCHANGED <<fil, status, length, nseq, total, lengthMax, nlen, stdout,
                 stderr, exitCode>>

\* Lines 113-116, status < 0.
Malformed ==
  /\ pc = "eof"
  /\ status < 0
  /\ print_usage("EXIT_FAILURE")
  /\ index' = {}
  /\ UNCHANGED <<fil, record, counters, i, stderr, accepted>>

\* EndOfStream without the status test: the report follows any loop exit.
EndOfStream_AnyStatus ==
  /\ pc = "eof"
  /\ pc' = "summary"
  /\ index' = {}
  /\ UNCHANGED <<fil, record, counters, i, stdout, stderr, exitCode,
                 accepted>>

\* Line 113, status = 0.
EndOfStream ==
  /\ pc = "eof"
  /\ ~(status < 0)
  /\ pc' = "summary"
  /\ index' = {}
  /\ UNCHANGED <<fil, record, counters, i, stdout, stderr, exitCode,
                 accepted>>

----------------------------------------------------------------------------
\* PerMille rounding halves up, as (int) floor (x + 0.5) would.
PerMille_HalfUp(count, denom) ==
  IF denom = 0 THEN 0 ELSE (2000 * count + denom) \div (2 * denom)

\* (int) lrint (1000 * ((double) count / denom)), lines 134 and 146: lrint
\* rounds to the nearest integer in the current rounding mode, which main
\* never changes from round-to-nearest, ties to even.  The quotient and the
\* product are taken exactly.  That is what the double arithmetic gives for
\* every denom below 400: a value of k + 1/2 needs a denom that is a
\* multiple of 16, the doubles are exact there as long as denom is not a
\* multiple of 5 as well (16, 32, 48, ...), and come out as exactly k + 1/2
\* for 80, 160, 240 and 320; everywhere else the doubles are off by far
\* less than the distance to the nearest half.  (From denom = 400 on the
\* double can fall just below an exact half: 1000 * (203.0 / 400) is
\* 507.49999999999994.)  A zero denom makes the C expression inf or NaN; 0
\* stands for what lrint makes of that, and no run reaches it.
PerMille(count, denom) ==
  IF denom = 0 THEN 0
  ELSE LET n == 1000 * count
           q == n \div denom
           r == n % denom
       IN  IF 2 * r < denom THEN q
           ELSE IF 2 * r > denom THEN q + 1
           ELSE IF q % 2 = 0 THEN q ELSE q + 1

\* PerMilleRow with the loop test j < qMax.
PerMilleRow_ShortLoop(counts, denom) ==
  [j \in 1 .. qMax |-> PerMille(counts[j - 1], denom)]

\* The j loops of lines 133-136 and 145-148: one column per quality value
\* 0 .. qMax (column j + 1 of the sequence is quality j).
PerMilleRow(counts, denom) ==
  [j \in 1 .. (qMax + 1) |-> PerMille(counts[j - 1], denom)]

\* The five symbol counts in the order _A _C _G _T _N (lines 130-132 and
\* 142-144).
Composition(counts) == [s \in 1 .. NumSymbols |-> counts[s - 1]]

\* Summary without the test of line 123: the composition always follows.
Summary_NoTotalGuard ==
  /\ pc = "summary"
  /\ stdout' = Append(stdout,
       IF nseq # 0
       THEN Line("summary", 0, <<nseq>>, <<nseq, total, lengthMax>>, <<>>)
       ELSE Line("summary", 0, <<>>, <<nseq, total>>, <<>>))
  /\ pc' = "total"
  /\ index' = {}
  /\ UNCHANGED <<fil, record, counters, i, stderr, exitCode, accepted>>

\* Summary without the test of line 119: the average is always printed.
Summary_AlwaysAverage ==
  /\ pc = "summary"
  /\ stdout' = Append(stdout,
       Line("summary", 0, <<nseq>>, <<nseq, total, lengthMax>>, <<>>))
  /\ pc' = IF total # 0 THEN "total" ELSE "finish"
  /\ index' = {}
  /\ UNCHANGED <<fil, record, counters, i, stderr, exitCode, accepted>>

\* Lines 118-121.
Summary ==
  /\ pc = "summary"
  /\ stdout' = Append(stdout,
       IF nseq # 0
       THEN Line("summary", 0, <<nseq>>, <<nseq, total, lengthMax>>, <<>>)
       ELSE Line("summary", 0, <<>>, <<nseq, total>>, <<>>))
  /\ pc' = IF total # 0 THEN "total" ELSE "finish"
  /\ index' = {}
  /\ UNCHANGED <<fil, record, counters, i, stderr, exitCode, accepted>>

\* Lines 124-137: standard deviations, column header, Total row.
Total ==
  /\ pc = "total"
  /\ stdout' = stdout \o
       << Line("stddev", 0, <<total, nseq>>, <<total, nseq>>, <<>>),
          Line("header", 0, <<>>, [j \in 1 .. (qMax + 1) |-> j - 1], <<>>),
          Line("Total", 0, <<total>>, Composition(sum),
               PerMilleRow(qsum, total)) >>
  /\ i' = 0
  /\ pc' = "base"
  /\ index' = {}
  /\ UNCHANGED <<fil, record, counters, stderr, exitCode, accepted>>

\* Remaining one bucket late: the records of length p are still counted.
Remaining_LateBucket(p) == nseq - (IF p = 0 THEN 0 ELSE nlen[p - 1])

\* nseq -= nlen[i], line 139.
Remaining(p) == nseq - nlen[p]

\* Lines 138-150, one iteration.
Base ==
  /\ pc = "base"
  /\ i < lengthMax
  /\ nseq' = Remaining(i)
  /\ stdout' = Append(stdout,
       Line("base", i + 1, <<nseq'>>, Composition(psum[i]),
            PerMilleRow(pqsum[i], nseq')))
  /\ index' = {i}
  /\ i' = i + 1
  /\ UNCHANGED <<pc, fil, record, total, lengthMax, qMax, sum, qsum, psum,
                 pqsum, nlen, stderr, exitCode, accepted>>

\* Line 138 with i = lengthMax, then lines 151-152.
BaseDone ==
  /\ pc = "base"
  /\ ~(i < lengthMax)
  /\ pc' = "finish"
  /\ index' = {}
  /\ UNCHANGED <<fil, record, counters, i, stdout, stderr, exitCode,
                 accepted>>

\* Line 153.
Finish ==
  /\ pc = "finish"
  /\ exitCode' = "EXIT_SUCCESS"
  /\ pc' = "exit"
  /\ index' = {}
  /\ UNCHANGED <<fil, record, counters, i, stdout, stderr, accepted>>

Next ==
  \/ Start
  \/ ReadRecord
  \/ ReadEnd
  \/ Count
  \/ CheckFits
  \/ CheckTooLong
  \/ Fold
  \/ Malformed
  \/ EndOfStream
  \/ Summary
  \/ Total
  \/ Base
  \/ BaseDone
  \/ Finish

Spec == Init /\ [][Next]_vars

----------------------------------------------------------------------------
\* The report of long streams.  ReportStart(d, c) is the state in which
\* EndOfStream leaves main after standard input has delivered d records of
\* length 1, each the symbol _A, c of them with quality 1 and the others
\* with quality 0.  SpecReport runs the report code (lines 118-153) from
\* these states, so that denominators up to MaxUniform are met without
\* walking through every order in which the records can arrive.
ReportStart(d, c) ==
  /\ pc = "summary"
  /\ fil = "stdin"
  /\ status = 0
  /\ length = 1
  /\ seq = <<>>
  /\ qval = <<>>
  /\ nseq = d
  /\ total = d
  /\ lengthMax = 1
  /\ qMax = IF c > 0 THEN 1 ELSE 0
  /\ sum = [s \in Symbols |-> IF s = 0 THEN d ELSE 0]
  /\ qsum = [q \in Quals |-> IF q = 0 THEN d - c ELSE IF q = 1 THEN c ELSE 0]
  /\ psum = [p \in Positions |->
               [s \in Symbols |-> IF p = 0 /\ s = 0 THEN d ELSE 0]]
  /\ pqsum = [p \in Positions |->
                [q \in Quals |-> IF p # 0 THEN 0
                                 ELSE IF q = 0 THEN d - c
                                 ELSE IF q = 1 THEN c ELSE 0]]
  /\ nlen = [p \in Positions |-> IF p = 1 THEN d ELSE 0]
  /\ i = 1
  /\ stdout = <<>>
  /\ stderr = <<>>
  /\ exitCode = "running"
  /\ accepted = [l \in 0 .. MAX_LENGTH |-> IF l = 1 THEN d ELSE 0]
  /\ index = {}

InitReport == \E d \in 1 .. MaxUniform : \E c \in 0 .. d : ReportStart(d, c)

NextReport ==
  \/ Summary
  \/ Total
  \/ Base
  \/ BaseDone
  \/ Finish

SpecReport == InitReport /\ [][NextReport]_vars

----------------------------------------------------------------------------
\* Vocabulary of the properties.

Lines == { stdout[k] : k \in 1 .. Len(stdout) }

ReportLines == { l \in Lines : l.what # "usage" }

Rows == { l \in Lines : l.what \in {"Total", "base"} }

\* The quality counts a row is computed from, and its denominator.
RowCounts(l) == IF l.what = "Total" THEN qsum ELSE pqsum[l.pos - 1]

RowDenom(l) == l.denoms[1]

Failed == exitCode \in {"EXIT_FAILURE", "SIGSEGV"}

\* Records folded in so far, and those longer than p.
AcceptedRecords == SumOver(accepted, 0 .. MAX_LENGTH)

LongerThan(p) == SumOver(accepted, (p + 1) .. MAX_LENGTH)

AcceptedLength ==
  SumOver([l \in 0 .. MAX_LENGTH |-> l * accepted[l]], 0 .. MAX_LENGTH)

Abs(x) == IF x < 0 THEN -x ELSE x

RECURSIVE SeqSum(_)
SeqSum(sq) == IF sq = <<>> THEN 0 ELSE Head(sq) + SeqSum(Tail(sq))

----------------------------------------------------------------------------
C2_MalformedNoReport ==
  /\ status < 0 =>
       /\ pc \in {"eof", "exit"}
       /\ ReportLines = {}
       /\ pc = "exit" => exitCode = "EXIT_FAILURE"
  /\ ReportLines # {} =>
       /\ status = 0
       /\ pc \in {"total", "base", "finish", "exit"}

C2_Witness ==
  /\ pc = "exit"
  /\ status < 0
  /\ AcceptedRecords >= 1
  /\ exitCode = "EXIT_FAILURE"
  /\ stdout = <<Usage>>

\* C3: a run that ends in EXIT_SUCCESS has read its stream to a clean end
\* and written the summary line, whether the stream is standard input or
\* the file named by the argument.
C3_SuccessOnlyAfterStream ==
  (pc = "exit" /\ exitCode = "EXIT_SUCCESS") =>
     /\ status = 0
     /\ \E l \in Lines : l.what = "summary"

\* C4: between records, the symbol counts and the quality counts of every
\* position add up to the number of accepted records longer than the
\* position, and sum[] and qsum[] each add up to total, the length of all
\* accepted records.
C4_CountsAddUp ==
  pc = "read" =>
     /\ \A p \in Positions :
          /\ SumOver(psum[p], Symbols) = LongerThan(p)
          /\ SumOver(pqsum[p], Quals) = LongerThan(p)
     /\ SumOver(sum, Symbols) = total
     /\ SumOver(qsum, Quals) = total
     /\ total = AcceptedLength

\* C5 as claimed: every per-mille column is 1000 * count / denom rounded to
\* the nearest integer, halves away from zero.
C5_HalfAwayFromZero ==
  \A l \in Rows : \A j \in 1 .. Len(l.permille) :
     l.permille[j] =
       (2000 * RowCounts(l)[j - 1] + RowDenom(l)) \div (2 * RowDenom(l))

\* C5 as amended: a row has one per-mille column for each quality value
\* 0 .. qMax; each is an integer nearest to 1000 * count / denom, and where
\* two integers are equally near it is the even one.
C5_NearestTiesToEven ==
  \A l \in Rows :
     /\ Len(l.permille) = qMax + 1
     /\ \A j \in 1 .. Len(l.permille) :
          LET off == Abs(1000 * RowCounts(l)[j - 1]
                         - l.permille[j] * RowDenom(l))
          IN  /\ 2 * off <= RowDenom(l)
              /\ 2 * off = RowDenom(l) => l.permille[j] % 2 = 0

C5_Witness ==
  \E l \in Rows : \E j \in 1 .. Len(l.permille) :
     /\ 2 * ((1000 * RowCounts(l)[j - 1]) % RowDenom(l)) = RowDenom(l)
     /\ l.permille[j] = 62

\* C6: every division of the report has a denominator of at least 1: the
\* composition is entered only with total > 0 (and so nseq > 0), and the
\* count left for position i is at least 1 when its row is computed.
C6_NoZeroDenominator ==
  /\ \A l \in Lines : \A k \in 1 .. Len(l.denoms) : l.denoms[k] >= 1
  /\ pc = "total" => (total > 0 /\ nseq > 0)
  /\ (pc = "base" /\ i < lengthMax) => Remaining(i) >= 1

C6_Witness ==
  /\ pc = "exit"
  /\ exitCode = "EXIT_SUCCESS"
  /\ accepted[0] >= 1
  /\ \E l \in Rows : l.what = "base" /\ l.pos = 2

\* C7: when readFastq returns 0 on its first call, the only output is the
\* line "0 sequences, 0 total length" without average and maximum, and
\* the run ends in EXIT_SUCCESS.
C7_EmptyStream ==
  ( /\ fil = "stdin"
    /\ status = 0
    /\ AcceptedRecords = 0
    /\ pc \in {"summary", "total", "base", "finish", "exit"} ) =>
     /\ pc \in {"summary", "finish", "exit"}
     /\ stdout = IF pc = "summary" THEN <<>>
                 ELSE <<Line("summary", 0, <<>>, <<0, 0>>, <<>>)>>
     /\ pc = "exit" => exitCode = "EXIT_SUCCESS"

C7_Witness ==
  /\ pc = "exit"
  /\ fil = "stdin"
  /\ status = 0
  /\ AcceptedRecords = 0
  /\ exitCode = "EXIT_SUCCESS"
  /\ Len(stdout) = 1

\* C8: in the Total row and in every base row the per-mille columns add up
\* to 1000 give or take the number of quality values with a non-zero count
\* in that row.
C8_RowSumNear1000 ==
  \A l \in Rows :
     Abs(SeqSum(l.permille) - 1000)
       <= Cardinality({q \in Quals : RowCounts(l)[q] > 0})

C8_Witness ==
  \E l \in Rows :
     /\ SeqSum(l.permille) # 1000
     /\ Cardinality({q \in Quals : RowCounts(l)[q] > 0}) >= 3

\* C9: the denominator of the row of position i (0-based) is the number of
\* accepted records longer than i.
C9_DenominatorIsLongerThan ==
  /\ \A l \in Rows : l.what = "base" => RowDenom(l) = LongerThan(l.pos - 1)
  /\ (pc = "base" /\ i < lengthMax) => Remaining(i) = LongerThan(i)

C9_Witness ==
  \E l1, l2 \in Rows :
     /\ l1.what = "base" /\ l1.pos = 1
     /\ l2.what = "base" /\ l2.pos = 2
     /\ RowDenom(l1) > RowDenom(l2)
     /\ accepted[1] >= 1

\* C10: every index used on nlen, psum and pqsum lies in 0 .. MAX_LENGTH-1.
C10_IndicesInExtent == index \subseteq Positions
====
